---------------------------- MODULE Spec2Model ----------------------------
(***************************************************************************)
(* A model of burnman/eos/property_modifiers.py: the five excess functions, *)
(* the compositor _modify_properties and the dispatcher                     *)
(* apply_property_modifiers.                                                *)
(*                                                                          *)
(* Numbers.  A Python float / numpy float64 is modelled as an exact         *)
(* rational n/d * 10^e in a canonical form (see Norm),                      *)
(* or as one of the IEEE specials +inf, -inf, nan.                          *)
(* Rounding and overflow of binary64 are not modelled: arithmetic on finite *)
(* values is exact.  Every value carries the flag np: TRUE for a numpy      *)
(* float64 scalar, FALSE for a built-in Python float.  The flag decides     *)
(* what a division by zero does: between two Python floats it raises        *)
(* ZeroDivisionError; as soon as one operand is a numpy scalar it only      *)
(* warns and yields inf or nan.  A raised exception is itself a value       *)
(* (k = "KeyError" or "ZeroDivisionError") that every operation passes on,  *)
(* left operand first, which is Python's evaluation order.                  *)
(*                                                                          *)
(* The integers n and d stay below IntLimit.  A result that would need a    *)
(* larger integer is the value OutOfRange, which is passed on like an       *)
(* exception; a call that meets one lies outside the inputs of the model    *)
(* and its action is not taken.                                             *)
(***************************************************************************)
EXTENDS Integers, Sequences, FiniteSets, TLC

VARIABLES mineral, modifiers, idx, status, trace

vars == <<mineral, modifiers, idx, status, trace>>

-----------------------------------------------------------------------------
(* Integer helpers                                                          *)

Abs(x) == IF x < 0 THEN -x ELSE x

Min(x, y) == IF x < y THEN x ELSE y

Max(x, y) == IF x > y THEN x ELSE y

RECURSIVE GCD(_, _)
GCD(a, b) == IF b = 0 THEN a ELSE GCD(b, a % b)

RECURSIVE Val(_, _)
\* how many times p divides the nonzero integer x
Val(x, p) == IF x % p = 0 THEN 1 + Val(x \div p, p) ELSE 0

\* the largest numerator and denominator of the model
IntLimit == 1000000000

\* x * y and b ^ k (b >= 2) for naturals, or -1 when an operand is -1 or
\* the result exceeds IntLimit, as 2^31 does
SMul(x, y) == IF x < 0 \/ y < 0 THEN -1
              ELSE IF x = 0 \/ y = 0 THEN 0
              ELSE IF y > IntLimit \div x THEN -1
              ELSE x * y

RECURSIVE SPow(_, _)
SPow(b, k) == IF k = 0 THEN 1
              ELSE IF k > 30 THEN -1
              ELSE SMul(b, SPow(b, k - 1))

-----------------------------------------------------------------------------
(* Values                                                                   *)

Special(kind, isnp) == [k |-> kind, n |-> 0, d |-> 1, e |-> 0, np |-> isnp]

NaN(isnp) == Special("nan", isnp)

Inf(sign, isnp) == Special(IF sign < 0 THEN "ninf" ELSE "pinf", isnp)

OutOfRange == Special("OutOfRange", FALSE)

KeyError == Special("KeyError", FALSE)

ZeroDivisionError == Special("ZeroDivisionError", FALSE)

\* a finite value from its sign, numerator, denominator and exponent; num or
\* den is -1 when it exceeded IntLimit
Fin(s, num, den, ee, isnp) ==
    IF num < 0 \/ den < 0 THEN OutOfRange
    ELSE [k |-> "fin", n |-> s * num, d |-> den, e |-> ee, np |-> isnp]

\* the exponent of the canonical form of x * 2^a * 5^b (x coprime to 10)
NormExp(a, b) == IF (a > 0 /\ b < 0) \/ (a < 0 /\ b > 0) THEN 0
                 ELSE IF Abs(a) < Abs(b) THEN a ELSE b

\* s * (nn/dd) * 2^a * 5^b with nn, dd coprime to 10, on the exponent ee
NormBuild(s, nn, dd, a, b, ee, isnp) ==
    Fin(s,
        SMul(SMul(nn, SPow(2, Max(a - ee, 0))), SPow(5, Max(b - ee, 0))),
        SMul(SMul(dd, SPow(2, Max(ee - a, 0))), SPow(5, Max(ee - b, 0))),
        ee, isnp)

\* s * (n1/d1) * 10^e for coprime n1, d1 > 0 whose valuations at 2 and 5 are
\* n2, n5, d2, d5
NormVal(s, n1, d1, n2, n5, d2, d5, e, isnp) ==
    NormBuild(s, n1 \div ((2 ^ n2) * (5 ^ n5)), d1 \div ((2 ^ d2) * (5 ^ d5)),
              n2 - d2 + e, n5 - d5 + e,
              NormExp(n2 - d2 + e, n5 - d5 + e), isnp)

NormReduced(s, n1, d1, e, isnp) ==
    NormVal(s, n1, d1, Val(n1, 2), Val(n1, 5), Val(d1, 2), Val(d1, 5), e, isnp)

\* The canonical finite value n/d * 10^e (d # 0): n/d is in lowest terms; e
\* is 0 when the value's 2-adic and 5-adic valuations have opposite signs
\* and otherwise the one nearer to zero.  So 2e11 is 2 * 10^11, 1/1024 is
\* 1/1024 * 10^0, and every number has one representation.
Norm(n, d, e, isnp) ==
    IF n = 0 THEN [k |-> "fin", n |-> 0, d |-> 1, e |-> 0, np |-> isnp]
    ELSE NormReduced(IF (n < 0) = (d < 0) THEN 1 ELSE -1,
                     Abs(n) \div GCD(Abs(n), Abs(d)),
                     Abs(d) \div GCD(Abs(n), Abs(d)), e, isnp)

\* Norm for a magnitude n/d given with its sign; n or d is -1 when it
\* exceeded IntLimit
NormS(sign, n, d, e, isnp) ==
    IF n < 0 \/ d < 0 THEN OutOfRange ELSE Norm(sign * n, d, e, isnp)

\* a Python float literal or parameter: n/d * 10^e
F(n, d, e) == Norm(n, d, e, FALSE)

\* the same number held as a numpy float64 scalar
AsNumpy(a) == [a EXCEPT !.np = TRUE]

Zero == F(0, 1, 0)

One == F(1, 1, 0)

IsErr(a) == a.k \in {"KeyError", "ZeroDivisionError", "OutOfRange"}

IsFinite(a) == a.k = "fin"

IsNonFinite(a) == a.k \in {"pinf", "ninf", "nan"}

IsZero(a) == a.k = "fin" /\ a.n = 0

\* -1, 0, 1 for a value that is neither nan nor an exception
Sign(a) == IF a.k = "pinf" THEN 1
           ELSE IF a.k = "ninf" THEN -1
           ELSE IF a.n > 0 THEN 1 ELSE IF a.n < 0 THEN -1 ELSE 0

\* IEEE equality (==): false as soon as one side is nan; the np flag is not
\* part of the number
FEq(a, b) == /\ ~IsErr(a) /\ ~IsErr(b)
             /\ a.k # "nan" /\ b.k # "nan"
             /\ a.k = b.k /\ a.n = b.n /\ a.d = b.d /\ a.e = b.e

Neg(a) == IF IsErr(a) \/ a.k = "nan" THEN a
          ELSE IF a.k = "pinf" THEN [a EXCEPT !.k = "ninf"]
          ELSE IF a.k = "ninf" THEN [a EXCEPT !.k = "pinf"]
          ELSE [a EXCEPT !.n = -a.n]

\* sa * xa / l + sb * xb / l on the exponent m
FinAddSum(sa, xa, sb, xb, l, m, isnp) ==
    IF xa < 0 \/ xb < 0 THEN OutOfRange
    ELSE Norm(sa * xa + sb * xb, l, m, isnp)

\* sa * na / da + sb * nb / db over the common denominator l
FinAddOver(sa, na, da, sb, nb, db, l, m, isnp) ==
    IF l < 0 THEN OutOfRange
    ELSE FinAddSum(sa, SMul(na, l \div da), sb, SMul(nb, l \div db), l, m, isnp)

FinAddTerms(sa, na, da, sb, nb, db, m, isnp) ==
    FinAddOver(sa, na, da, sb, nb, db, SMul(da \div GCD(da, db), db), m, isnp)

\* a + b with both brought to the exponent m by the factors ta and tb
FinAddScaled(a, b, ta, tb, m, isnp) ==
    IF ta < 0 \/ tb < 0 THEN OutOfRange
    ELSE FinAddTerms(Sign(a), SMul(Abs(a.n), ta \div GCD(ta, a.d)),
                     a.d \div GCD(ta, a.d),
                     Sign(b), SMul(Abs(b.n), tb \div GCD(tb, b.d)),
                     b.d \div GCD(tb, b.d), m, isnp)

FinAdd(a, b, isnp) ==
    FinAddScaled(a, b, SPow(10, a.e - Min(a.e, b.e)),
                 SPow(10, b.e - Min(a.e, b.e)), Min(a.e, b.e), isnp)

Add(a, b) ==
    IF IsErr(a) THEN a ELSE IF IsErr(b) THEN b
    ELSE LET isnp == a.np \/ b.np IN
         IF a.k = "nan" \/ b.k = "nan" THEN NaN(isnp)
         ELSE IF a.k = "fin" /\ b.k = "fin" THEN
              IF a.n = 0 THEN [b EXCEPT !.np = isnp]
              ELSE IF b.n = 0 THEN [a EXCEPT !.np = isnp]
              ELSE FinAdd(a, b, isnp)
         ELSE IF a.k = "fin" THEN [b EXCEPT !.np = isnp]
         ELSE IF b.k = "fin" THEN [a EXCEPT !.np = isnp]
         ELSE IF a.k = b.k THEN [a EXCEPT !.np = isnp]
         ELSE NaN(isnp)

Sub(a, b) == Add(a, Neg(b))

FinMul(a, b, isnp) ==
    LET g1 == GCD(Abs(a.n), b.d)
        g2 == GCD(Abs(b.n), a.d)
    IN NormS(Sign(a) * Sign(b),
             SMul(Abs(a.n) \div g1, Abs(b.n) \div g2),
             SMul(a.d \div g2, b.d \div g1), a.e + b.e, isnp)

Mul(a, b) ==
    IF IsErr(a) THEN a ELSE IF IsErr(b) THEN b
    ELSE LET isnp == a.np \/ b.np IN
         IF a.k = "nan" \/ b.k = "nan" THEN NaN(isnp)
         ELSE IF a.k = "fin" /\ b.k = "fin" THEN
              IF a.n = 0 \/ b.n = 0 THEN Norm(0, 1, 0, isnp)
              ELSE FinMul(a, b, isnp)
         ELSE IF IsZero(a) \/ IsZero(b) THEN NaN(isnp)
         ELSE Inf(Sign(a) * Sign(b), isnp)

\* 1/b for a finite nonzero b
FinRecip(b) == Norm(b.d, b.n, -b.e, b.np)

\* Python's a / b
Div(a, b) ==
    IF IsErr(a) THEN a ELSE IF IsErr(b) THEN b
    ELSE LET isnp == a.np \/ b.np IN
         IF IsZero(b) THEN
              IF ~isnp THEN ZeroDivisionError
              ELSE IF a.k = "nan" \/ IsZero(a) THEN NaN(TRUE)
              ELSE Inf(Sign(a), TRUE)
         ELSE IF a.k = "nan" \/ b.k = "nan" THEN NaN(isnp)
         ELSE IF b.k = "fin" THEN
              IF a.k = "fin" THEN Mul(a, FinRecip(b))
              ELSE Inf(Sign(a) * Sign(b), isnp)
         ELSE IF a.k = "fin" THEN Norm(0, 1, 0, isnp)
         ELSE NaN(isnp)

\* the order of x * 10^k and y for integers x, y > 0 and k >= 0: -1, 0 or 1
MagCmp(x, y, k) ==
    IF k > 9 THEN 1
    ELSE LET p == 10 ^ k
             q == y \div p
         IN IF x > q THEN 1
            ELSE IF x = q /\ y % p = 0 THEN 0
            ELSE -1

\* the order of two finite values: -1, 0 or 1
Cmp(a, b) ==
    IF Sign(a) # Sign(b) THEN (IF Sign(a) < Sign(b) THEN -1 ELSE 1)
    ELSE IF Sign(a) = 0 THEN 0
    ELSE LET x == Abs(a.n) * b.d
             y == Abs(b.n) * a.d
             c == IF a.e >= b.e THEN MagCmp(x, y, a.e - b.e)
                  ELSE -MagCmp(y, x, b.e - a.e)
         IN Sign(a) * c

\* whether Cmp(a, b) stays within the integers of the model; a comparison
\* that does not is counted as OutOfRange by the function that makes it
Comparable(a, b) ==
    \/ a.k # "fin" \/ b.k # "fin"
    \/ Sign(a) # Sign(b) \/ Sign(a) = 0
    \/ (SMul(Abs(a.n), b.d) >= 0 /\ SMul(Abs(b.n), a.d) >= 0)

InRange(a, b) == IF Comparable(a, b) THEN Zero ELSE OutOfRange

\* Python's a < b and a > b: false when either side is nan
Lt(a, b) == /\ a.k # "nan" /\ b.k # "nan"
            /\ IF a.k = "fin" /\ b.k = "fin" THEN Cmp(a, b) < 0
               ELSE IF a.k = b.k THEN FALSE
               ELSE a.k = "ninf" \/ b.k = "pinf"

Gt(a, b) == Lt(b, a)

\* the code's infix arithmetic; every use below is fully parenthesised in
\* Python's precedence and left-to-right order
a (+) b == Add(a, b)

a (-) b == Sub(a, b)

a (.) b == Mul(a, b)

a (/) b == Div(a, b)

\* an integer literal such as 3. and a decimal literal n * 10^e such as 0.75
N(i) == F(i, 1, 0)

Dec(n, e) == F(n, 1, e)

\* the integer square root of x >= 0 (rounded down), by bisection
RECURSIVE ISqrtIn(_, _, _)
ISqrtIn(x, lo, hi) ==
    IF lo >= hi THEN lo
    ELSE LET mid == (lo + hi + 1) \div 2
         IN IF mid * mid <= x THEN ISqrtIn(x, mid, hi) ELSE ISqrtIn(x, lo, mid - 1)

IntSqrt(x) == ISqrtIn(x, 0, Min(x, 46340))

\* digits kept when a square root is irrational: the result is rounded down
\* to a multiple of 1/RootPrecision (binary64 rounds too, only finer)
RootPrecision == 100

\* the root of n/d * 100^h when n or d is no square
SqrtApprox(d, h, big) ==
    IF big < 0 THEN OutOfRange
    ELSE NormS(1, IntSqrt(big), SMul(d, RootPrecision), h, TRUE)

SqrtRoots(n, d, h, rn, rd) ==
    IF rn * rn = n /\ rd * rd = d THEN Norm(rn, rd, h, TRUE)
    ELSE SqrtApprox(d, h, SMul(SMul(n, d), RootPrecision * RootPrecision))

\* the root of n/d * 100^h
SqrtFin(n, d, h) ==
    IF n < 0 THEN OutOfRange ELSE SqrtRoots(n, d, h, IntSqrt(n), IntSqrt(d))

\* np.sqrt(a): a numpy scalar; nan for a negative argument
NpSqrt(a) ==
    IF IsErr(a) THEN a
    ELSE IF a.k = "nan" \/ a.k = "ninf" THEN NaN(TRUE)
    ELSE IF a.k = "pinf" THEN Inf(1, TRUE)
    ELSE IF a.n < 0 THEN NaN(TRUE)
    ELSE IF a.n = 0 THEN Norm(0, 1, 0, TRUE)
    ELSE IF a.e % 2 = 0 THEN SqrtFin(a.n, a.d, a.e \div 2)
    ELSE SqrtFin(SMul(a.n, 10), a.d, (a.e - 1) \div 2)

\* np.power(a, 0.25)
NpRoot4(a) == NpSqrt(NpSqrt(a))

\* np.power(a, k) for an integer exponent k (6., -5., ...)
Square(a) == a (.) a

\* a^k for k >= 0, by repeated squaring
RECURSIVE PosPower(_, _)
PosPower(a, k) == IF k = 0 THEN AsNumpy(One)
                  ELSE IF k % 2 = 0 THEN Square(PosPower(a, k \div 2))
                  ELSE PosPower(a, k - 1) (.) a

NpPower(a, k) ==
    IF IsErr(a) THEN a
    ELSE IF k >= 0 THEN PosPower(AsNumpy(a), k)
    ELSE AsNumpy(One) (/) PosPower(AsNumpy(a), -k)

\* np.log(a): a numpy scalar; -inf at 0, nan below 0, exactly 0 at 1.  For
\* other arguments the value is the rational 2(a-1)/(a+1), the first term of
\* ln a = 2 atanh((a-1)/(a+1)): it has the sign and the zero of ln.
NpLog(a) ==
    IF IsErr(a) THEN a
    ELSE IF a.k = "nan" \/ a.k = "ninf" THEN NaN(TRUE)
    ELSE IF a.k = "pinf" THEN Inf(1, TRUE)
    ELSE IF a.n < 0 THEN NaN(TRUE)
    ELSE IF a.n = 0 THEN Inf(-1, TRUE)
    ELSE AsNumpy((N(2) (.) (a (-) One)) (/) (a (+) One))

-----------------------------------------------------------------------------
(* Parameter sets and excess records                                        *)

\* a lookup that answers 0 for a missing key
GetOrZero(params, key) == IF key \in DOMAIN params THEN params[key] ELSE Zero

\* params[key]: a missing key raises KeyError
Get(params, key) == IF key \in DOMAIN params THEN params[key] ELSE KeyError

\* params[key][i]
GetAt(params, key, i) ==
    IF key \in DOMAIN params THEN params[key][i + 1] ELSE KeyError

\* the first exception raised among the values, in evaluation order
RECURSIVE FirstErr(_)
FirstErr(vals) == IF vals = <<>> THEN ""
                  ELSE IF IsErr(Head(vals)) THEN Head(vals).k
                  ELSE FirstErr(Tail(vals))

\* the exception a function ends in: the one already raised, or else the
\* first one among the values computed next
Then(raised, vals) == IF raised # "" THEN raised ELSE FirstErr(vals)

\* the dictionary 'excesses' every excess function builds
Excesses(G, dGdT, dGdP, d2GdT2, d2GdP2, d2GdPdT) ==
    [G |-> G, dGdT |-> dGdT, dGdP |-> dGdP,
     d2GdT2 |-> d2GdT2, d2GdP2 |-> d2GdP2, d2GdPdT |-> d2GdPdT]

ZeroRecord == Excesses(Zero, Zero, Zero, Zero, Zero, Zero)

\* locals of the excess functions that the properties below speak about
NoInfo == [Q_0 |-> Zero, Q |-> Zero, Tc |-> Zero, dividedByQ2 |-> FALSE,
           converged |-> TRUE, magnetic_moment |-> Zero, tau |-> Zero]

\* What a call of an excess function ends in: the exception it raised (""
\* for a normal return), the record it returns and its locals.  head is the
\* exception raised before the six fields were computed.
Outcome(head, rec, info) ==
    [raised |-> Then(head, <<rec.G, rec.dGdT, rec.dGdP, rec.d2GdT2,
                             rec.d2GdP2, rec.d2GdPdT>>),
     rec |-> rec, info |-> info]

-----------------------------------------------------------------------------
(* _dqf_excesses(pressure, temperature, params)                             *)

\* the record with dGdT = params['S']
DqfExcessesPositiveSlope(pressure, temperature, params) ==
    Outcome("",
      Excesses((Get(params, "H") (-) (temperature (.) Get(params, "S")))
                 (+) (pressure (.) Get(params, "V")),
               Get(params, "S"),
               Get(params, "V"),
               Zero, Zero, Zero),
      NoInfo)

DqfExcesses(pressure, temperature, params) ==
    Outcome("",
      Excesses((Get(params, "H") (-) (temperature (.) Get(params, "S")))
                 (+) (pressure (.) Get(params, "V")),
               Neg(Get(params, "S")),
               Get(params, "V"),
               Zero, Zero, Zero),
      NoInfo)

-----------------------------------------------------------------------------
(* _landau_excesses(pressure, temperature, params)                          *)

\* lines 47-56: the branch temperature < Tc
LandauOrdered(T, Tc_0, V_D, S_D, Tc, Q2, G_disordered, dGdT_disordered, dGdP_disordered) ==
    Outcome(FirstErr(<<Q2>>),
      Excesses(
        (S_D (.) (((T (-) Tc) (.) Q2)
                  (+) ((((Tc_0 (.) Q2) (.) Q2) (.) Q2) (/) N(3))))
          (-) G_disordered,
        ((S_D (.) Q2) (.) (Dec(15, -1) (-) ((Dec(5, -1) (.) Tc_0) (/) Tc)))
          (-) dGdT_disordered,
        ((Neg(V_D) (.) Q2)
           (.) (One (+) (((Dec(5, -1) (.) T) (/) Tc)
                         (.) (One (-) (Tc_0 (/) Tc)))))
          (-) dGdP_disordered,
        (Neg(S_D) (/) (Tc (.) Q2))
          (.) (Dec(75, -2) (-) ((Dec(25, -2) (.) Tc_0) (/) Tc)),
        (((V_D (.) V_D) (.) T) (/) (((S_D (.) Tc) (.) Tc) (.) Q2))
          (.) ((((T (.) (One (+) (Tc_0 (/) Tc))) (/) (N(4) (.) Tc))
                (+) ((Q2 (.) Q2) (.) (One (-) (Tc_0 (/) Tc))))
               (-) One),
        (V_D (/) ((N(2) (.) Tc) (.) Q2))
          (.) (One (+) (((T (/) (N(2) (.) Tc)) (-) (Q2 (.) Q2))
                        (.) (One (-) (Tc_0 (/) Tc))))),
      NoInfo)

\* a branch that returns the baseline terms themselves
LandauDisorderedUnnegated(G_disordered, dGdT_disordered, dGdP_disordered) ==
    Outcome("", Excesses(G_disordered, dGdT_disordered, dGdP_disordered,
                         Zero, Zero, Zero), NoInfo)

\* lines 59-65: the branch temperature >= Tc
LandauDisordered(G_disordered, dGdT_disordered, dGdP_disordered) ==
    Outcome("", Excesses(Neg(G_disordered), Neg(dGdT_disordered),
                         Neg(dGdP_disordered), Zero, Zero, Zero), NoInfo)

\* lines 39-43, with Tc as line 37 left it
LandauAt(T, Tc_0, V_D, S_D, Tc) ==
    IF FirstErr(<<Tc, InRange(T, Tc)>>) # ""
    THEN Outcome(FirstErr(<<Tc, InRange(T, Tc)>>), ZeroRecord, NoInfo)
    ELSE IF Lt(T, Tc)
    THEN LandauOrdered(T, Tc_0, V_D, S_D, Tc, NpSqrt(One (-) (T (/) Tc)),
                       S_D (.) ((T (-) Tc) (+) (Tc_0 (/) N(3))), S_D, Neg(V_D))
    ELSE LandauDisordered(S_D (.) ((T (-) Tc) (+) (Tc_0 (/) N(3))), S_D,
                          Neg(V_D))

\* line 37: Tc
LandauTc(pressure, params) ==
    Get(params, "Tc_0")
      (+) ((Get(params, "V_D") (.) pressure) (/) Get(params, "S_D"))

LandauExcesses(pressure, temperature, params) ==
    LandauAt(temperature, Get(params, "Tc_0"), Get(params, "V_D"),
             Get(params, "S_D"), LandauTc(pressure, params))

-----------------------------------------------------------------------------
(* _landau_hp_excesses(pressure, temperature, P_0, T_0, params)             *)

\* lines 96-99: Q_0
HPReferenceOrder(T_0, Tc_0) ==
    IF IsErr(T_0) THEN T_0
    ELSE IF IsErr(Tc_0) THEN Tc_0
    ELSE IF ~Comparable(T_0, Tc_0) THEN OutOfRange
    ELSE IF Lt(T_0, Tc_0) THEN NpRoot4((Tc_0 (-) T_0) (/) Tc_0)
    ELSE Zero

\* lines 102-105: Q
HPOrder(T, Tc, Tc_0) ==
    IF IsErr(Tc) THEN Tc
    ELSE IF ~Comparable(T, Tc) THEN OutOfRange
    ELSE IF Lt(T, Tc) THEN NpRoot4((Tc (-) T) (/) Tc_0)
    ELSE Zero

\* the threshold of line 115
QThreshold == Dec(1, -12)

\* a guard that lets every Q that is not negative through
HPGuardNonnegative(Q) == ~Lt(Q, Zero)

\* line 115: if Q > 1.e-12
HPGuard(Q) == Gt(Q, QThreshold)

\* lines 124-127: the result, with the locals Q_0 and Q and whether the
\* branch that divides by Q*Q (lines 116-118) ran
LandauHPResult(head, Q_0, Tc, Q, rec) ==
    Outcome(head, rec,
            [NoInfo EXCEPT !.Q_0 = Q_0, !.Q = Q, !.Tc = Tc,
               !.dividedByQ2 =
                  (/\ head = ""
                   /\ FirstErr(<<rec.G, rec.dGdT, rec.dGdP>>) = ""
                   /\ HPGuard(Q))])

\* lines 108-122
LandauHPRecord(P, T, P_0, Tc_0, V_D, S_D, Q_0, Tc, Q) ==
    LandauHPResult(
      FirstErr(<<P_0, Q_0, Tc, Q, InRange(Q, QThreshold)>>), Q_0, Tc, Q,
      Excesses(
        ((((Tc_0 (.) S_D)
             (.) ((Q_0 (.) Q_0) (-) (NpPower(Q_0, 6) (/) N(3))))
            (-) (S_D (.) (((Tc (.) Q) (.) Q)
                          (-) ((Tc_0 (.) NpPower(Q, 6)) (/) N(3)))))
           (-) ((T (.) S_D) (.) ((Q_0 (.) Q_0) (-) (Q (.) Q))))
          (+) ((((P (-) P_0) (.) V_D) (.) Q_0) (.) Q_0),
        S_D (.) ((Q (.) Q) (-) (Q_0 (.) Q_0)),
        Neg(V_D) (.) ((Q (.) Q) (-) (Q_0 (.) Q_0)),
        IF HPGuard(Q)
        THEN Neg(S_D) (/) (((N(2) (.) Tc_0) (.) Q) (.) Q)
        ELSE Zero,
        IF HPGuard(Q)
        THEN (Neg(V_D) (.) V_D)
             (/) ((((N(2) (.) S_D) (.) Tc_0) (.) Q) (.) Q)
        ELSE Zero,
        IF HPGuard(Q)
        THEN V_D (/) (((N(2) (.) Tc_0) (.) Q) (.) Q)
        ELSE Zero))

\* lines 101-105
LandauHPBelow(P, T, P_0, Tc_0, V_D, S_D, Q_0, Tc) ==
    LandauHPRecord(P, T, P_0, Tc_0, V_D, S_D, Q_0, Tc, HPOrder(T, Tc, Tc_0))

\* lines 93-101
LandauHPAt(P, T, P_0, T_0, Tc_0, V_D, S_D) ==
    LandauHPBelow(P, T, P_0, Tc_0, V_D, S_D, HPReferenceOrder(T_0, Tc_0),
                  Tc_0 (+) ((V_D (.) (P (-) P_0)) (/) S_D))

LandauHPExcesses(pressure, temperature, P_0, T_0, params) ==
    LandauHPAt(pressure, temperature, P_0, T_0, Get(params, "Tc_0"),
               Get(params, "V_D"), Get(params, "S_D"))

-----------------------------------------------------------------------------
(* _bragg_williams_excesses(pressure, temperature, params)                  *)

\* gas_constant, imported at line 7 from burnman/constants.py (J/K/mol); its
\* digits are cut to 8.314 to keep the integers of the model small
gas_constant == Dec(8314, -3)

\* scipy.optimize.fsolve(func, x0, args)[0] at lines 193-194.  The MINPACK
\* iteration is not modelled: the iterates it ends on are the input
\* sol = [Q, Qn] (Q at the centre point, Qn at the eight neighbouring
\* points).  Called without full_output, fsolve only warns when the
\* iteration did not converge and still returns its last iterate, so
\* whether it converged does not change what the caller receives.
Fsolve(sol, centre) == IF centre THEN sol.Q ELSE sol.Qn

\* lnxord and lnxdisord, lines 180-182
Lnxord(n, Q) ==
    (NpLog(One (+) (n (.) Q)) (+) (n (.) NpLog(n (+) Q)))
    (-) ((One (+) n) (.) NpLog(One (+) n))

Lnxdisord(n, Q) ==
    (((((One (/) (One (+) n)) (.) NpLog(One (+) (n (.) Q)))
       (+) ((n (/) (One (+) n)) (.) NpLog(One (-) Q)))
      (+) ((n (/) (One (+) n)) (.) NpLog(n (.) (One (-) Q))))
     (+) (((n (.) n) (/) (One (+) n)) (.) NpLog(n (+) Q)))
    (-) (n (.) NpLog(n))

\* lnxdisord(n, Q) and lnxord(n, Q): they depend on n and Q only, and are
\* evaluated once for each of the two iterates
Lnx(n, Q) == [disord |-> Lnxdisord(n, Q), ord |-> Lnxord(n, Q)]

\* lines 195-196: G from the Q the root-find returned
OrderGibbsAt(temperature, n, f, W, gibbs_disorder, Q, lnx) ==
    IF IsErr(W) THEN W
    ELSE IF IsErr(gibbs_disorder) THEN gibbs_disorder
    ELSE (((One (-) Q)
           (.) (gibbs_disorder
                (+) (((f (.) gas_constant) (.) temperature) (.) lnx.disord)))
          (+) ((f (.) Q) (.) ((gas_constant (.) temperature) (.) lnx.ord)))
         (+) (((One (-) Q) (.) Q) (.) W)

\* order_gibbs(pressure, temperature, params), lines 190-197: the G of the
\* pair (Q, G) it returns
OrderGibbs(pressure, temperature, params, n, f, deltaS, Q, lnx) ==
    OrderGibbsAt(temperature, n, f,
                 Get(params, "Wh") (+) (pressure (.) Get(params, "Wv")),
                 (Get(params, "deltaH") (-) ((f (.) temperature) (.) deltaS))
                   (+) (pressure (.) Get(params, "deltaV")),
                 Q, lnx)

\* lines 203-204
dT == N(1)

dP == N(1000)

\* lines 216-225: the finite differences
BraggWilliamsDifferences(head, sol, G, GsubPsubT, GsubPaddT, GaddPsubT, GaddPaddT, GsubP, GaddP, GsubT, GaddT) ==
    Outcome(Then(head, <<G, GsubPsubT, GsubPaddT, GaddPsubT, GaddPaddT,
                         GsubP, GaddP, GsubT, GaddT>>),
            Excesses(
              G,
              (GaddT (-) GsubT) (/) (N(2) (.) dT),
              (GaddP (-) GsubP) (/) (N(2) (.) dP),
              ((GaddT (+) GsubT) (-) (N(2) (.) G)) (/) (dT (.) dT),
              ((GaddP (+) GsubP) (-) (N(2) (.) G)) (/) (dP (.) dP),
              (((GaddPaddT (-) GsubPaddT) (-) GaddPsubT) (+) GsubPsubT)
                (/) ((N(4) (.) dT) (.) dP)),
            [NoInfo EXCEPT !.Q = Fsolve(sol, FALSE)])

\* lines 206-214: the nine calls of order_gibbs, with the iterate Q at the
\* centre point and Qn at its neighbours
BraggWilliamsSolved(P, T, params, n, f, deltaS, sol, Q, lnxQ, Qn, lnxQn) ==
    BraggWilliamsDifferences(
      FirstErr(<<n, f, deltaS>>), sol,
      OrderGibbs(P, T, params, n, f, deltaS, Q, lnxQ),
      OrderGibbs(P (-) dP, T (-) dT, params, n, f, deltaS, Qn, lnxQn),
      OrderGibbs(P (-) dP, T (+) dT, params, n, f, deltaS, Qn, lnxQn),
      OrderGibbs(P (+) dP, T (-) dT, params, n, f, deltaS, Qn, lnxQn),
      OrderGibbs(P (+) dP, T (+) dT, params, n, f, deltaS, Qn, lnxQn),
      OrderGibbs(P (-) dP, T, params, n, f, deltaS, Qn, lnxQn),
      OrderGibbs(P (+) dP, T, params, n, f, deltaS, Qn, lnxQn),
      OrderGibbs(P, T (-) dT, params, n, f, deltaS, Qn, lnxQn),
      OrderGibbs(P, T (+) dT, params, n, f, deltaS, Qn, lnxQn))

BraggWilliamsAt(P, T, params, n, f, deltaS, sol) ==
    BraggWilliamsSolved(P, T, params, n, f, deltaS, sol,
                        Fsolve(sol, TRUE), Lnx(n, Fsolve(sol, TRUE)),
                        Fsolve(sol, FALSE), Lnx(n, Fsolve(sol, FALSE)))

\* lines 176-178: deltaS
DeltaS(n) ==
    gas_constant (.) (((One (+) n) (.) NpLog(One (+) n)) (-) (n (.) NpLog(n)))

\* _bragg_williams_excesses(pressure, temperature, params), with the outcome
\* sol of its nine root-finds
BraggWilliamsExcesses(pressure, temperature, params, sol) ==
    BraggWilliamsAt(pressure, temperature, params, Get(params, "n"),
                    Get(params, "factor"), DeltaS(Get(params, "n")), sol)

-----------------------------------------------------------------------------
(* _magnetic_excesses_chs(pressure, temperature, params)                    *)

\* (474./497.)*(1./structural_parameter - 1.), a factor of lines 251-259
StructuralFactor(p) == (N(474) (/) N(497)) (.) ((One (/) p) (-) One)

\* lines 249-253 and 265: f
MagneticF(p, A, tau) ==
    IF Lt(tau, One)
    THEN One (-) ((One (/) A)
           (.) ((N(79) (/) ((N(140) (.) p) (.) tau))
                (+) (StructuralFactor(p)
                     (.) (((NpPower(tau, 3) (/) N(6))
                           (+) (NpPower(tau, 9) (/) N(135)))
                          (+) (NpPower(tau, 15) (/) N(600))))))
    ELSE Neg(One (/) A)
         (.) (((NpPower(tau, -5) (/) N(10))
               (+) (NpPower(tau, -15) (/) N(315)))
              (+) (NpPower(tau, -25) (/) N(1500)))

\* lines 254-257 and 266: dfdtau
MagneticDfdtau(p, A, tau) ==
    IF Lt(tau, One)
    THEN Neg(One (/) A)
         (.) ((N(-79) (/) (((N(140) (.) p) (.) tau) (.) tau))
              (+) (StructuralFactor(p)
                   (.) ((((tau (.) tau) (/) N(2))
                         (+) (NpPower(tau, 8) (/) N(15)))
                        (+) (NpPower(tau, 14) (/) N(40)))))
    ELSE (One (/) A)
         (.) (((NpPower(tau, -6) (/) N(2))
               (+) (NpPower(tau, -16) (/) N(21)))
              (+) (NpPower(tau, -26) (/) N(60)))

\* lines 258-261 and 267: d2fdtau2
MagneticD2fdtau2(p, A, tau) ==
    IF Lt(tau, One)
    THEN Neg(One (/) A)
         (.) (((N(2) (.) N(79)) (/) ((N(140) (.) p) (.) NpPower(tau, 3)))
              (+) (StructuralFactor(p)
                   (.) ((tau (+) ((N(8) (.) NpPower(tau, 7)) (/) N(15)))
                        (+) ((N(14) (.) NpPower(tau, 13)) (/) N(40)))))
    ELSE Neg(One (/) A)
         (.) ((((N(6) (.) NpPower(tau, -7)) (/) N(2))
               (+) ((N(16) (.) NpPower(tau, -17)) (/) N(21)))
              (+) ((N(26) (.) NpPower(tau, -27)) (/) N(60)))

\* lines 285-292: d2GdPdT, from the dGdP of line 280, and the result
MagneticRecord(s, d, head, G, dGdT, d2GdT2, dGdP, d2GdP2) ==
    Outcome(head,
            Excesses(G, dGdT, dGdP, d2GdT2, d2GdP2,
              ((dGdP (/) s.T)
               (+) (((gas_constant (.) s.T) (.) s.lnm) (.) d.d2fdPdT))
              (+) ((((gas_constant (.) s.T) (.) s.dmagnetic_momentdP)
                    (/) (s.magnetic_moment (+) One)) (.) d.dfdT)),
            [NoInfo EXCEPT !.magnetic_moment = s.magnetic_moment,
                           !.tau = s.tau])

\* lines 275-284: G, dGdT, d2GdT2, dGdP, d2GdP2
MagneticAtDf(s, head, f, d) ==
    MagneticRecord(s, d, head,
      ((gas_constant (.) s.T) (.) s.lnm) (.) f,
      (gas_constant (.) s.lnm) (.) (f (+) (s.T (.) d.dfdT)),
      (gas_constant (.) s.lnm)
        (.) ((N(2) (.) d.dfdT) (+) (s.T (.) d.d2fdT2)),
      (gas_constant (.) s.T)
        (.) (((f (.) s.dmagnetic_momentdP) (/) (s.magnetic_moment (+) One))
             (+) (d.dfdP (.) s.lnm)),
      (gas_constant (.) s.T)
        (.) (((Neg(f) (.) NpPower(s.dmagnetic_momentdP
                                    (/) (s.magnetic_moment (+) One), 2))
              (+) (((N(2) (.) d.dfdP) (.) s.dmagnetic_momentdP)
                   (/) (s.magnetic_moment (+) One)))
             (+) (d.d2fdP2 (.) s.lnm)))

\* lines 269-273: the derivatives of f
MagneticDerivatives(s, dfdtau, d2fdtau2) ==
    [dfdT    |-> dfdtau (.) s.dtaudT,
     d2fdT2  |-> (d2fdtau2 (.) s.dtaudT) (.) s.dtaudT,
     dfdP    |-> dfdtau (.) s.dtaudP,
     d2fdP2  |-> ((d2fdtau2 (.) s.dtaudP) (.) s.dtaudP)
                 (+) (dfdtau (.) s.d2taudP2),
     d2fdPdT |-> ((d2fdtau2 (.) s.dtaudT) (.) s.dtaudP)
                 (-) (dfdtau (.) s.d2taudPdT)]

MagneticAtF(s, head, f, dfdtau, d2fdtau2) ==
    MagneticAtDf(s, Then(head, <<f, dfdtau, d2fdtau2>>), f,
                 MagneticDerivatives(s, dfdtau, d2fdtau2))

\* lines 248-267
MagneticAtTau(s) ==
    MagneticAtF(s,
      FirstErr(<<s.structural_parameter, s.curie_temperature, s.tau,
                 s.dtaudT, s.dtaudP, s.d2taudPdT, s.d2taudP2,
                 s.magnetic_moment, s.dmagnetic_momentdP, s.A,
                 InRange(s.tau, One)>>),
      MagneticF(s.structural_parameter, s.A, s.tau),
      MagneticDfdtau(s.structural_parameter, s.A, s.tau),
      MagneticD2fdtau2(s.structural_parameter, s.A, s.tau))

\* the logarithm of the moment itself
LogMomentUnshifted(magnetic_moment) == NpLog(magnetic_moment)

\* np.log(magnetic_moment + 1.), the factor of lines 275-285
LogMoment(magnetic_moment) == NpLog(magnetic_moment (+) One)

\* lines 236-248: the locals up to A, and lnm, the factor LogMoment
MagneticTau(T, p, ct, ct1, mm, dmm) ==
    [T |-> T,
     structural_parameter |-> p,
     curie_temperature |-> ct,
     tau       |-> T (/) ct,
     dtaudT    |-> One (/) ct,
     dtaudP    |-> Neg(T (.) ct1) (/) (ct (.) ct),
     d2taudPdT |-> ct1 (/) (ct (.) ct),
     d2taudP2  |-> (((N(2) (.) T) (.) ct1) (.) ct1) (/) ((ct (.) ct) (.) ct),
     magnetic_moment    |-> mm,
     dmagnetic_momentdP |-> dmm,
     A   |-> (N(518) (/) N(1125))
             (+) ((N(11692) (/) N(15975)) (.) ((One (/) p) (-) One)),
     lnm |-> LogMoment(mm)]

MagneticExcessesChs(pressure, temperature, params) ==
    MagneticAtTau(
      MagneticTau(temperature,
        Get(params, "structural_parameter"),
        GetAt(params, "curie_temperature", 0)
          (+) (pressure (.) GetAt(params, "curie_temperature", 1)),
        GetAt(params, "curie_temperature", 1),
        GetAt(params, "magnetic_moment", 0)
          (+) (pressure (.) GetAt(params, "magnetic_moment", 1)),
        GetAt(params, "magnetic_moment", 1)))

-----------------------------------------------------------------------------
(* _modify_properties(mineral, excesses): the compositor.  Each New*        *)
(* operator is the right-hand side of one assignment; m is the mineral as   *)
(* it stands when that line runs.                                           *)

NewGibbs(m, ex) == m.gibbs (+) ex.G

NewCp(m, ex) == m.C_p (-) (m.temperature (.) ex.d2GdT2)

\* a K_T whose denominator reads the volume this call is about to store
NewKTAfterVolume(m, ex) ==
    Neg(m.V (+) ex.dGdP)
      (/) (ex.d2GdP2 (-) ((m.V (+) ex.dGdP) (/) m.K_T))

NewKT(m, ex) == Neg(m.V (+) ex.dGdP) (/) (ex.d2GdP2 (-) (m.V (/) m.K_T))

NewAlpha(m, ex) == ((m.alpha (.) m.V) (+) ex.d2GdPdT) (/) (m.V (+) ex.dGdP)

NewS(m, ex) == m.S (-) ex.dGdT

NewV(m, ex) == m.V (+) ex.dGdP

NewH(m) == m.gibbs (+) (m.temperature (.) m.S)

NewHelmholtz(m) == m.gibbs (-) (m.pressure (.) m.V)

NewCv(m) ==
    m.C_p (-) ((((m.V (.) m.temperature) (.) m.alpha) (.) m.alpha) (.) m.K_T)

NewGr(m) == ((m.alpha (.) m.K_T) (.) m.V) (/) m.C_v

NewKS(m) == (m.K_T (.) m.C_p) (/) m.C_v

\* an order that assigns S and V before K_T and alpha
AssignmentsVolumeFirst ==
    <<"gibbs", "C_p", "S", "V", "K_T", "alpha", "H", "helmholtz", "C_v",
      "gr", "K_S">>

\* the fields in the order lines 305-321 assign them
Assignments == <<"gibbs", "C_p", "K_T", "alpha", "S", "V", "H", "helmholtz",
                 "C_v", "gr", "K_S">>

\* the right-hand side of the assignment to a field
Rhs(field, m, ex) ==
    CASE field = "gibbs"     -> NewGibbs(m, ex)
      [] field = "C_p"       -> NewCp(m, ex)
      [] field = "K_T"       -> NewKT(m, ex)
      [] field = "alpha"     -> NewAlpha(m, ex)
      [] field = "S"         -> NewS(m, ex)
      [] field = "V"         -> NewV(m, ex)
      [] field = "H"         -> NewH(m)
      [] field = "helmholtz" -> NewHelmholtz(m)
      [] field = "C_v"       -> NewCv(m)
      [] field = "gr"        -> NewGr(m)
      [] field = "K_S"       -> NewKS(m)

\* The assignments from position j on.  An exception raised by a right-hand
\* side ends the call: the fields assigned before it stay changed, the
\* others stay as they were.
RECURSIVE Assign(_, _, _)
Store(m, ex, j, v) ==
    IF IsErr(v) THEN [m |-> m, raised |-> v.k]
    ELSE Assign([m EXCEPT ![Assignments[j]] = v], ex, j + 1)

Assign(m, ex, j) ==
    IF j > Len(Assignments) THEN [m |-> m, raised |-> ""]
    ELSE Store(m, ex, j, Rhs(Assignments[j], m, ex))

ModifyProperties(m, ex) == Assign(m, ex, 1)

-----------------------------------------------------------------------------
(* Inputs: the minerals and modifier lists the dispatcher is run on         *)

\* the longest modifier list
MaxModifiers == 2

KnownKinds == {"landau", "landau_hp", "dqf", "bragg_williams", "magnetic_chs"}

\* the number x as the mineral holds it: a Python float or a numpy scalar
Held(x, isnp) == IF isnp THEN AsNumpy(x) ELSE x

\* A Mineral State as its owner hands it over: pressure and temperature
\* set, G, S, V, C_p, K_T, alpha from the equation of state, and the
\* derived fields computed from them by the identities of lines 315-321.
SetState(P, T, G, S, V, C_p, K_T, alpha, params, isnp) ==
    Assign([pressure |-> Held(P, isnp), temperature |-> Held(T, isnp),
            gibbs |-> Held(G, isnp), S |-> Held(S, isnp), V |-> Held(V, isnp),
            C_p |-> Held(C_p, isnp), K_T |-> Held(K_T, isnp),
            alpha |-> Held(alpha, isnp), H |-> Zero, helmholtz |-> Zero,
            C_v |-> Zero, gr |-> Zero, K_S |-> Zero, params |-> params],
           ZeroRecord, 7)

\* the mineral's own params: P_0 and T_0 of its equation of state
RefParams == [P_0 |-> N(0), T_0 |-> N(15)]

\* the state of the end-to-end scenario
ScenarioState ==
    SetState(Dec(1, 9), N(1000), N(-100), N(10), Dec(1, -5), N(100),
             Dec(2, 11), Dec(2, -5), RefParams, FALSE)

\* a state at P = 0, T = 15 K, below the transitions of the pool, with the
\* volume V and the bulk modulus K_T given
ColdState(V, K_T, params, isnp) ==
    SetState(N(0), N(15), N(-2), N(3), V, N(4), K_T, F(1, 4, 0), params, isnp)

\* the minerals the dispatcher is run on: the scenario state (Python
\* floats), a cold state of numpy scalars, and a cold state of Python floats
\* whose params carry no T_0
Minerals ==
    { s.m : s \in { x \in
        { ScenarioState,
          ColdState(Dec(2, -9), Dec(8, 9), RefParams, TRUE),
          ColdState(Dec(2, -9), Dec(8, 9), [P_0 |-> N(0)], FALSE) } :
        x.raised = "" } }

LandauParams == [Tc_0 |-> N(16), V_D |-> Dec(1, -9), S_D |-> N(1)]

\* the Parameter Set of the end-to-end scenario
ScenarioDqf == [H |-> N(0), S |-> N(1), V |-> Dec(1, -6)]

\* the modifier entries lists are drawn from: (kind tag, Parameter Set)
ModifierPool ==
    << <<"dqf", ScenarioDqf>>,
       <<"dqf", [H |-> N(5), S |-> N(1)]>>,
       <<"landau", LandauParams>>,
       <<"landau_hp", LandauParams>>,
       <<"bragg_williams",
         [n |-> N(1), factor |-> N(1), deltaH |-> N(1000),
          deltaV |-> N(0), Wh |-> N(2000), Wv |-> N(0)]>>,
       <<"magnetic_chs",
         [structural_parameter |-> N(1),
          curie_temperature |-> <<N(30), N(0)>>,
          magnetic_moment |-> <<N(1), N(0)>>]>>,
       <<"einstein", [Theta |-> N(300)]>> >>

\* the iterates the nine root-finds of one Bragg-Williams evaluation end on
SolverIterates == [Q |-> F(1, 2, 0), Qn |-> F(1, 2, 0)]

-----------------------------------------------------------------------------
(* apply_property_modifiers(mineral): one action per pass of the loop of    *)
(* line 330, by the branch its kind tag selects.  idx is the position of    *)
(* the loop, status how the call stands, trace the calls made so far.       *)

Event(op, kind, raised, rec, info, post) ==
    [op |-> op, i |-> idx, kind |-> kind, raised |-> raised, rec |-> rec,
     info |-> info, pre |-> mineral, post |-> post]

\* a loop that steps over the entry after the one it handled
NextEntrySkipping(i) == i + 2

\* the position of the loop after the entry at i
NextEntry(i) == i + 1

\* _modify_properties(mineral, r.rec) has ended in c
Composed(kind, r, c) ==
    /\ c.raised # "OutOfRange"
    /\ mineral' = c.m
    /\ trace' = trace \o
         << Event("excess", kind, "", r.rec, r.info, mineral),
            Event("modify", kind, c.raised, r.rec, r.info, c.m) >>
    /\ IF c.raised = ""
       THEN idx' = NextEntry(idx) /\ status' = status
       ELSE idx' = idx /\ status' = c.raised

\* _modify_properties(mineral, <excess function>(...)): r is the outcome of
\* the excess function.  When it raised, the compositor is not called.
Compose(kind, r) ==
    IF r.raised # ""
    THEN /\ r.raised # "OutOfRange"
         /\ status' = r.raised
         /\ trace' = Append(trace, Event("excess", kind, r.raised, r.rec,
                                         r.info, mineral))
         /\ UNCHANGED <<mineral, idx>>
    ELSE Composed(kind, r, ModifyProperties(mineral, r.rec))

AtEntry(kind) ==
    /\ status = "running"
    /\ idx <= Len(modifiers)
    /\ modifiers[idx][1] = kind

ApplyLandau ==
    /\ AtEntry("landau")
    /\ Compose("landau",
               LandauExcesses(mineral.pressure, mineral.temperature,
                              modifiers[idx][2]))
    /\ UNCHANGED modifiers

ApplyLandauHP ==
    /\ AtEntry("landau_hp")
    /\ Compose("landau_hp",
               LandauHPExcesses(mineral.pressure, mineral.temperature,
                                Get(mineral.params, "P_0"),
                                Get(mineral.params, "T_0"),
                                modifiers[idx][2]))
    /\ UNCHANGED modifiers

ApplyDqf ==
    /\ AtEntry("dqf")
    /\ Compose("dqf",
               DqfExcesses(mineral.pressure, mineral.temperature,
                           modifiers[idx][2]))
    /\ UNCHANGED modifiers

\* r is what _bragg_williams_excesses returns from the iterates the
\* root-finds ended on; whether they had converged does not change it
ComposeSolved(r) ==
    \E c \in BOOLEAN :
      Compose("bragg_williams", [r EXCEPT !.info.converged = c])

ApplyBraggWilliams ==
    /\ AtEntry("bragg_williams")
    /\ ComposeSolved(
         BraggWilliamsExcesses(mineral.pressure, mineral.temperature,
                               modifiers[idx][2], SolverIterates))
    /\ UNCHANGED modifiers

ApplyMagneticChs ==
    /\ AtEntry("magnetic_chs")
    /\ Compose("magnetic_chs",
               MagneticExcessesChs(mineral.pressure, mineral.temperature,
                                   modifiers[idx][2]))
    /\ UNCHANGED modifiers

\* a kind tag none of the five tests of lines 331-339 matches: the loop
\* body does nothing and the loop goes on
PassUnmatched ==
    /\ status = "running"
    /\ idx <= Len(modifiers)
    /\ modifiers[idx][1] \notin KnownKinds
    /\ idx' = NextEntry(idx)
    /\ UNCHANGED <<mineral, modifiers, status, trace>>

\* line 342: return None
Return ==
    /\ status = "running"
    /\ idx > Len(modifiers)
    /\ status' = "returned"
    /\ UNCHANGED <<mineral, modifiers, idx, trace>>

Lists(pool, maxlen) ==
    UNION { [1..len -> 1..Len(pool)] : len \in 0..maxlen }

Init ==
    /\ mineral \in Minerals
    /\ \E sel \in Lists(ModifierPool, MaxModifiers) :
         modifiers = [j \in 1..Len(sel) |-> ModifierPool[sel[j]]]
    /\ idx = 1
    /\ status = "running"
    /\ trace = <<>>

Next ==
    \/ ApplyLandau
    \/ ApplyLandauHP
    \/ ApplyDqf
    \/ ApplyBraggWilliams
    \/ ApplyMagneticChs
    \/ PassUnmatched
    \/ Return

Spec == Init /\ [][Next]_vars

-----------------------------------------------------------------------------
(* _modify_properties called on its own: mineral is the state it is called  *)
(* on, the record is drawn from ExcessRecords; the call is recorded in      *)
(* trace.                                                                   *)

\* the states: those of the scenario and the cold state as Python floats
\* and as numpy scalars, and cold states of zero volume or zero bulk modulus
ModifyStates ==
    { s.m : s \in { x \in
        { ScenarioState,
          ColdState(Dec(2, -9), Dec(8, 9), RefParams, FALSE),
          ColdState(Dec(2, -9), Dec(8, 9), RefParams, TRUE),
          ColdState(N(0), Dec(8, 9), RefParams, FALSE),
          ColdState(N(0), Dec(8, 9), RefParams, TRUE),
          ColdState(Dec(2, -9), N(0), RefParams, FALSE),
          ColdState(Dec(2, -9), N(0), RefParams, TRUE) } :
        x.raised = "" } }

\* a record with one field set
OneField(field, v) == [ZeroRecord EXCEPT ![field] = v]

\* the records: all-zero ones, records with one field set (among them a
\* d2GdP2 equal to V/K_T of the cold state and a dGdP equal to -V), as
\* Python floats and as numpy scalars, and those of the scenario's
\* modifier and of the Landau modifier
ExcessRecords(m) ==
    { [f \in DOMAIN ZeroRecord |-> Held(ZeroRecord[f], isnp)] :
        isnp \in BOOLEAN }
    \cup { OneField(fv[1], Held(fv[2], isnp)) :
             fv \in { <<"G", N(1)>>, <<"dGdT", N(-1)>>,
                      <<"dGdP", Dec(1, -6)>>, <<"dGdP", Dec(-2, -9)>>,
                      <<"d2GdT2", N(1)>>, <<"d2GdP2", Dec(25, -20)>>,
                      <<"d2GdPdT", Dec(1, -9)>> },
             isnp \in BOOLEAN }
    \cup { DqfExcesses(m.pressure, m.temperature, ScenarioDqf).rec,
           LandauExcesses(m.pressure, m.temperature, LandauParams).rec }

\* _modify_properties(mineral, rec) has ended in c
Modified(rec, c) ==
    /\ c.raised # "OutOfRange"
    /\ mineral' = c.m
    /\ trace' = Append(trace, Event("modify", "", c.raised, rec, NoInfo, c.m))
    /\ status' = IF c.raised = "" THEN "returned" ELSE c.raised
    /\ UNCHANGED <<modifiers, idx>>

ModifyOnce ==
    /\ status = "running"
    /\ \E rec \in ExcessRecords(mineral) :
         Modified(rec, ModifyProperties(mineral, rec))

ModifyInit ==
    /\ mineral \in ModifyStates
    /\ modifiers = <<>>
    /\ idx = 1
    /\ status = "running"
    /\ trace = <<>>

ModifyNext == ModifyOnce

ModifySpec == ModifyInit /\ [][ModifyNext]_vars

-----------------------------------------------------------------------------
(* The excess functions called on their own.  mineral holds the arguments   *)
(* (pressure, temperature and, for landau_hp, P_0 and T_0 in params),       *)
(* modifiers the one Parameter Set; the call is recorded in trace.          *)

\* the arguments of one call
Point(P, T, params, isnp) ==
    [pressure |-> Held(P, isnp), temperature |-> Held(T, isnp),
     params |-> params]

\* one call of an excess function, ended in r
Evaluate(kind, r) ==
    /\ r.raised # "OutOfRange"
    /\ trace' = Append(trace, Event("excess", kind, r.raised, r.rec, r.info,
                                    mineral))
    /\ status' = IF r.raised = "" THEN "returned" ELSE r.raised
    /\ UNCHANGED <<mineral, modifiers, idx>>

\* _landau_hp_excesses is called at these points ...
HPPoints ==
    { Point(P, T, [P_0 |-> N(0), T_0 |-> T_0], isnp) :
        P \in {N(0), N(1)}, T \in {N(-1), N(15), N(16), N(17)},
        T_0 \in {N(15), N(16), N(20)}, isnp \in BOOLEAN }

\* ... with these Parameter Sets
HPParams ==
    { LandauParams,
      [Tc_0 |-> N(16), V_D |-> N(1), S_D |-> N(1)],
      [Tc_0 |-> N(16), V_D |-> N(-1), S_D |-> N(2)],
      [Tc_0 |-> N(16), V_D |-> N(1), S_D |-> N(0)] }

HPInit ==
    /\ mineral \in HPPoints
    /\ \E params \in HPParams : modifiers = << <<"landau_hp", params>> >>
    /\ idx = 1
    /\ status = "running"
    /\ trace = <<>>

EvalLandauHP ==
    /\ AtEntry("landau_hp")
    /\ Evaluate("landau_hp",
                LandauHPExcesses(mineral.pressure, mineral.temperature,
                                 Get(mineral.params, "P_0"),
                                 Get(mineral.params, "T_0"),
                                 modifiers[idx][2]))

HPNext == EvalLandauHP

HPSpec == HPInit /\ [][HPNext]_vars

\* _landau_excesses is called at these points ...
LandauPoints ==
    { Point(P, T, RefParams, isnp) :
        P \in {N(0), N(1), N(2), Dec(1, 9)},
        T \in {N(12), N(15), N(16), N(17), N(18)}, isnp \in BOOLEAN }

\* ... with these Parameter Sets: Tc is 16 K at P = 0 and, for one or
\* another of them, 15 K at P = 2 and 17 K at P = 1 and at P = 1e9
LandauParamSets ==
    { LandauParams,
      [Tc_0 |-> N(16), V_D |-> N(1), S_D |-> N(1)],
      [Tc_0 |-> N(16), V_D |-> N(-1), S_D |-> N(2)],
      [Tc_0 |-> N(16), V_D |-> N(1), S_D |-> N(0)] }

LandauInit ==
    /\ mineral \in LandauPoints
    /\ \E params \in LandauParamSets : modifiers = << <<"landau", params>> >>
    /\ idx = 1
    /\ status = "running"
    /\ trace = <<>>

EvalLandau ==
    /\ AtEntry("landau")
    /\ Evaluate("landau",
                LandauExcesses(mineral.pressure, mineral.temperature,
                               modifiers[idx][2]))

LandauNext == EvalLandau

LandauSpec == LandauInit /\ [][LandauNext]_vars

\* _magnetic_excesses_chs is called at these points ...
MagneticPoints ==
    { Point(P, T, RefParams, isnp) :
        P \in {N(0), N(1)}, T \in {N(0), N(15), N(30)}, isnp \in BOOLEAN }

\* ... with these Parameter Sets
MagneticParams ==
    { [structural_parameter |-> p, curie_temperature |-> ct,
       magnetic_moment |-> mm] :
        p  \in {N(1), F(1, 2, 0)},
        ct \in {<<N(30), N(0)>>, <<N(15), N(15)>>},
        mm \in {<<N(0), N(0)>>, <<N(0), N(1)>>, <<N(1), N(-1)>>,
                <<N(1), N(0)>>, <<N(-1), N(0)>>} }

MagneticInit ==
    /\ mineral \in MagneticPoints
    /\ \E params \in MagneticParams :
         modifiers = << <<"magnetic_chs", params>> >>
    /\ idx = 1
    /\ status = "running"
    /\ trace = <<>>

EvalMagneticChs ==
    /\ AtEntry("magnetic_chs")
    /\ Evaluate("magnetic_chs",
                MagneticExcessesChs(mineral.pressure, mineral.temperature,
                                    modifiers[idx][2]))

MagneticNext == EvalMagneticChs

MagneticSpec == MagneticInit /\ [][MagneticNext]_vars

-----------------------------------------------------------------------------
(* Properties                                                               *)

\* a >= b and a <= b as Python compares: false when either side is nan
Ge(a, b) == Gt(a, b) \/ FEq(a, b)

StateFields == {"pressure", "temperature", "gibbs", "C_p", "K_T", "alpha",
                "S", "V", "H", "helmholtz", "C_v", "gr", "K_S"}

AllZero(rec) ==
    /\ IsZero(rec.G) /\ IsZero(rec.dGdT) /\ IsZero(rec.dGdP)
    /\ IsZero(rec.d2GdT2) /\ IsZero(rec.d2GdP2) /\ IsZero(rec.d2GdPdT)

\* the calls of the compositor that returned normally
CompletedModifies ==
    { k \in DOMAIN trace : trace[k].op = "modify" /\ trace[k].raised = "" }

\* the calls of the excess function of a kind that returned a record
Returned(kind) ==
    { k \in DOMAIN trace : /\ trace[k].op = "excess"
                           /\ trace[k].kind = kind
                           /\ trace[k].raised = "" }

\* the record the excess function of an entry returns at the pressure and
\* temperature of the mineral m
RecordOf(entry, m) ==
    CASE entry[1] = "dqf" ->
           DqfExcesses(m.pressure, m.temperature, entry[2]).rec
      [] entry[1] = "landau" ->
           LandauExcesses(m.pressure, m.temperature, entry[2]).rec
      [] entry[1] = "landau_hp" ->
           LandauHPExcesses(m.pressure, m.temperature, Get(m.params, "P_0"),
                            Get(m.params, "T_0"), entry[2]).rec
      [] entry[1] = "bragg_williams" ->
           BraggWilliamsExcesses(m.pressure, m.temperature, entry[2],
                                 SolverIterates).rec
      [] entry[1] = "magnetic_chs" ->
           MagneticExcessesChs(m.pressure, m.temperature, entry[2]).rec

\* the change of G a single dqf entry makes at the state it met
DqfChangeOfG ==
    (modifiers[1][2].H (-) (trace[1].pre.temperature (.) modifiers[1][2].S))
      (+) (trace[1].pre.pressure (.) modifiers[1][2].V)

DqfReturned ==
    status = "returned" /\ Len(modifiers) = 1 /\ modifiers[1][1] = "dqf"

DqfScenario ==
    trace[1].pre = ScenarioState.m /\ modifiers[1][2] = ScenarioDqf

\* C1 as stated: when the call has returned for a list holding the single
\* entry ('dqf', {H, S, V}), G has grown by H - T*S + P*V, S has dropped by
\* S and V has grown by V; for the scenario state and {H=0, S=1, V=1e-6}
\* the result is G = -100, S = 9, V = 1.1e-5.
DqfEndToEndAsStated ==
    DqfReturned
    => /\ FEq(mineral.gibbs, trace[1].pre.gibbs (+) DqfChangeOfG)
       /\ FEq(mineral.S, trace[1].pre.S (-) modifiers[1][2].S)
       /\ FEq(mineral.V, trace[1].pre.V (+) modifiers[1][2].V)
       /\ DqfScenario => /\ FEq(mineral.gibbs, N(-100))
                         /\ FEq(mineral.S, N(9))
                         /\ FEq(mineral.V, Dec(11, -6))

\* C1: when the call has returned for a list holding the single entry
\* ('dqf', {H, S, V}), G has grown by H - T*S + P*V, S has grown by S and
\* V has grown by V; for the scenario state and {H=0, S=1, V=1e-6} the
\* result is G = -100, S = 11, V = 1.1e-5.
DqfEndToEnd ==
    DqfReturned
    => /\ Len(trace) = 2
       /\ FEq(mineral.gibbs, trace[1].pre.gibbs (+) DqfChangeOfG)
       /\ FEq(mineral.S, trace[1].pre.S (+) modifiers[1][2].S)
       /\ FEq(mineral.V, trace[1].pre.V (+) modifiers[1][2].V)
       /\ DqfScenario => /\ FEq(mineral.gibbs, N(-100))
                         /\ FEq(mineral.S, N(11))
                         /\ FEq(mineral.V, Dec(11, -6))

\* the scenario has run to its end
DqfScenarioDone ==
    /\ DqfReturned
    /\ DqfScenario
    /\ Len(trace) = 2
    /\ FEq(mineral.gibbs, N(-100))
    /\ FEq(mineral.V, Dec(11, -6))
    /\ FEq(mineral.S, N(11))

\* C2: the loop never moves past an entry whose kind tag is not one of the
\* five known ones.
UnknownKindNeverPassed ==
    \A j \in 1..Len(modifiers) : j < idx => modifiers[j][1] \in KnownKinds

\* C3: a call of the compositor that completes with an all-zero record
\* leaves every field of the state as it was.
ZeroRecordIsIdentity ==
    \A k \in CompletedModifies :
      AllZero(trace[k].rec)
      => \A f \in StateFields : FEq(trace[k].post[f], trace[k].pre[f])

\* C4: after every call of the compositor that completes, the five
\* identities hold on the fields of the state.
IdentitiesAfterModify ==
    \A k \in CompletedModifies :
      /\ FEq(trace[k].post.H,
             trace[k].post.gibbs
               (+) (trace[k].post.temperature (.) trace[k].post.S))
      /\ FEq(trace[k].post.helmholtz,
             trace[k].post.gibbs
               (-) (trace[k].post.pressure (.) trace[k].post.V))
      /\ FEq(trace[k].post.C_v,
             trace[k].post.C_p
               (-) ((((trace[k].post.V (.) trace[k].post.temperature)
                      (.) trace[k].post.alpha) (.) trace[k].post.alpha)
                    (.) trace[k].post.K_T))
      /\ FEq(trace[k].post.K_S,
             (trace[k].post.K_T (.) trace[k].post.C_p) (/) trace[k].post.C_v)
      /\ FEq(trace[k].post.gr,
             ((trace[k].post.alpha (.) trace[k].post.K_T) (.) trace[k].post.V)
               (/) trace[k].post.C_v)

\* C5: for a list of known kinds the calls made are, in this order, the
\* excess function of entry 1, the compositor on its record, the excess
\* function of entry 2 at the state the first call left, the compositor on
\* its record, ...; when the call returns each entry has been applied once.
OncePerEntryInOrder ==
    (\A j \in 1..Len(modifiers) : modifiers[j][1] \in KnownKinds)
    => /\ \A k \in DOMAIN trace :
            /\ trace[k].i = (k + 1) \div 2
            /\ trace[k].kind = modifiers[trace[k].i][1]
            /\ trace[k].op = (IF k % 2 = 1 THEN "excess" ELSE "modify")
            /\ k > 1 => trace[k].pre = trace[k - 1].post
            /\ k % 2 = 1 => trace[k].post = trace[k].pre
            /\ (trace[k].raised = "" /\ k % 2 = 1 /\ k >= Len(trace) - 1)
               => trace[k].rec = RecordOf(modifiers[trace[k].i], trace[k].pre)
            /\ k % 2 = 0 => trace[k].rec = trace[k - 1].rec
            /\ k < Len(trace) => trace[k].raised = ""
       /\ status = "returned"
          => /\ Len(trace) = 2 * Len(modifiers)
             /\ \A k \in DOMAIN trace : trace[k].raised = ""
             /\ Len(trace) > 0 => mineral = trace[Len(trace)].post

\* a list of two entries of different known kinds has been applied
TwoEntriesApplied ==
    /\ status = "returned"
    /\ Len(modifiers) = 2
    /\ modifiers[1][1] = "landau"
    /\ modifiers[2][1] = "dqf"
    /\ Len(trace) = 4
    /\ trace[4].post = mineral
    /\ trace[3].pre = trace[2].post
    /\ trace[2].post # trace[1].pre

\* C6: a Bragg-Williams evaluation in which a root-find did not converge
\* ends in an error: it returns no record and the compositor is not called.
NonConvergenceRaises ==
    \A k \in DOMAIN trace :
      (trace[k].kind = "bragg_williams" /\ ~trace[k].info.converged)
      => (trace[k].op = "excess" /\ trace[k].raised # "")

\* C7: when the denominator of the K_T update is zero, or K_T is, the
\* compositor ends in an error and stores no infinite or not-a-number value.
ZeroDenominatorReported ==
    \A k \in DOMAIN trace :
      (/\ trace[k].op = "modify"
       /\ \/ IsZero(trace[k].pre.K_T)
          \/ IsZero(trace[k].rec.d2GdP2
                      (-) (trace[k].pre.V (/) trace[k].pre.K_T)))
      => /\ trace[k].raised # ""
         /\ \A f \in StateFields : ~IsNonFinite(trace[k].post[f])

\* the keys the excess function of a kind reads
RequiredKeys(kind) ==
    CASE kind = "dqf" -> {"H", "S", "V"}
      [] kind \in {"landau", "landau_hp"} -> {"Tc_0", "V_D", "S_D"}
      [] kind = "bragg_williams" ->
           {"n", "factor", "deltaH", "deltaV", "Wh", "Wv"}
      [] kind = "magnetic_chs" ->
           {"structural_parameter", "curie_temperature", "magnetic_moment"}
      [] OTHER -> {}

\* the entry lacks a key its kind requires, or the mineral P_0 or T_0
Lacking(entry, m) ==
    \/ ~(RequiredKeys(entry[1]) \subseteq DOMAIN entry[2])
    \/ entry[1] = "landau_hp" /\ ~({"P_0", "T_0"} \subseteq DOMAIN m.params)

\* C8: for an entry lacking a key the only call made is that of its excess
\* function, which ends in an error; it is the last call, the compositor is
\* never called for the entry, and the state is the one the entries before
\* it left.
MissingKeyRaisesBeforeMutation ==
    \A k \in DOMAIN trace :
      Lacking(modifiers[trace[k].i], trace[k].pre)
      => /\ trace[k].op = "excess"
         /\ trace[k].raised # ""
         /\ status = trace[k].raised
         /\ k = Len(trace)
         /\ idx = trace[k].i
         /\ mineral = trace[k].pre
         /\ mineral = (IF k = 1 THEN trace[1].pre ELSE trace[k - 1].post)

\* the second entry lacks a key: the first was applied, the second was not
SecondEntryLacksKey ==
    /\ status = "KeyError"
    /\ Len(modifiers) = 2
    /\ idx = 2
    /\ Lacking(modifiers[2], mineral)
    /\ Len(trace) = 3
    /\ mineral = trace[2].post
    /\ mineral # trace[1].pre

\* C9 as stated: whenever the moment at P is 0, the six fields of the
\* record returned are 0.
ZeroMomentZeroRecord ==
    \A k \in Returned("magnetic_chs") :
      IsZero(trace[k].info.magnetic_moment) => AllZero(trace[k].rec)

\* C9: when both coefficients of the moment are 0, T > 0, the Curie
\* temperature at P is positive and the structural parameter lies in
\* (0, 1], the six fields of the record returned are 0.
ZeroMomentCoefficientsZeroRecord ==
    \A k \in Returned("magnetic_chs") :
      (/\ IsZero(modifiers[trace[k].i][2].magnetic_moment[1])
       /\ IsZero(modifiers[trace[k].i][2].magnetic_moment[2])
       /\ Gt(trace[k].pre.temperature, Zero)
       /\ Gt(trace[k].info.tau, Zero)
       /\ Gt(modifiers[trace[k].i][2].structural_parameter, Zero)
       /\ Ge(One, modifiers[trace[k].i][2].structural_parameter))
      => AllZero(trace[k].rec)

\* a record has been returned for a moment with both coefficients 0
ZeroCoefficientsEvaluated ==
    \E k \in Returned("magnetic_chs") :
      /\ IsZero(modifiers[trace[k].i][2].magnetic_moment[1])
      /\ IsZero(modifiers[trace[k].i][2].magnetic_moment[2])
      /\ Gt(trace[k].pre.temperature, Zero)
      /\ Gt(trace[k].info.tau, Zero)
      /\ AllZero(trace[k].rec)

\* C10: in every call of _landau_hp_excesses, T_0 >= Tc_0 makes Q_0 zero,
\* T >= Tc makes Q zero, and with Q below 1e-12 the three second
\* derivatives are zero and the branch dividing by Q*Q is not run.
HPGuardsHold ==
    \A k \in DOMAIN trace :
      (trace[k].kind = "landau_hp" /\ trace[k].op = "excess")
      => /\ Lt(trace[k].info.Q, QThreshold) => ~trace[k].info.dividedByQ2
         /\ trace[k].raised = ""
            => /\ Ge(trace[k].pre.params.T_0, modifiers[trace[k].i][2].Tc_0)
                  => IsZero(trace[k].info.Q_0)
               /\ Ge(trace[k].pre.temperature, trace[k].info.Tc)
                  => IsZero(trace[k].info.Q)
               /\ Lt(trace[k].info.Q, QThreshold)
                  => /\ IsZero(trace[k].rec.d2GdT2)
                     /\ IsZero(trace[k].rec.d2GdP2)
                     /\ IsZero(trace[k].rec.d2GdPdT)

\* a record has been returned with T_0 >= Tc_0 and T >= Tc
HPAtOrAboveTc ==
    \E k \in Returned("landau_hp") :
      /\ Ge(trace[k].pre.params.T_0, modifiers[trace[k].i][2].Tc_0)
      /\ IsZero(trace[k].info.Q_0)
      /\ Ge(trace[k].pre.temperature, trace[k].info.Tc)
      /\ IsZero(trace[k].info.Q)
      /\ Lt(trace[k].info.Q, QThreshold)
      /\ IsZero(trace[k].rec.d2GdT2)
      /\ IsZero(trace[k].rec.d2GdP2)
      /\ IsZero(trace[k].rec.d2GdPdT)
      /\ ~trace[k].info.dividedByQ2

\* the T < Tc expressions of G, dGdT and dGdP at the order parameter 0
OrderedAtZero(T, Tc_0, V_D, S_D, Tc) ==
    LandauOrdered(T, Tc_0, V_D, S_D, Tc, AsNumpy(Zero),
                  S_D (.) ((T (-) Tc) (+) (Tc_0 (/) N(3))), S_D, Neg(V_D)).rec

\* the record is the negated baseline, with no second derivatives
NegatedBaseline(rec, T, Tc_0, V_D, S_D, Tc) ==
    /\ FEq(rec.G, Neg(S_D (.) ((T (-) Tc) (+) (Tc_0 (/) N(3)))))
    /\ FEq(rec.dGdT, Neg(S_D))
    /\ FEq(rec.dGdP, V_D)
    /\ IsZero(rec.d2GdT2) /\ IsZero(rec.d2GdP2) /\ IsZero(rec.d2GdPdT)

\* G, dGdT and dGdP of the two records are equal
SameToFirstOrder(rec, other) ==
    /\ FEq(rec.G, other.G)
    /\ FEq(rec.dGdT, other.dGdT)
    /\ FEq(rec.dGdP, other.dGdP)

LandauContinuousIn(rec, T, Tc_0, V_D, S_D, Tc) ==
    /\ Ge(T, Tc) => NegatedBaseline(rec, T, Tc_0, V_D, S_D, Tc)
    /\ FEq(T, Tc)
       => SameToFirstOrder(rec, OrderedAtZero(T, Tc_0, V_D, S_D, Tc))

\* C11: a record _landau_excesses returns at T >= Tc is G = -S_D*((T - Tc)
\* + Tc_0/3), dGdT = -S_D, dGdP = V_D with the three second derivatives
\* zero; at T = Tc its G, dGdT and dGdP equal the values the T < Tc
\* expressions take at the order parameter 0.
LandauContinuousAtTc ==
    \A k \in Returned("landau") :
      LandauContinuousIn(trace[k].rec, trace[k].pre.temperature,
                         modifiers[trace[k].i][2].Tc_0,
                         modifiers[trace[k].i][2].V_D,
                         modifiers[trace[k].i][2].S_D,
                         LandauTc(trace[k].pre.pressure,
                                  modifiers[trace[k].i][2]))

\* a record has been returned at T = Tc, at a pressure that has moved Tc
\* away from Tc_0
LandauEvaluatedAtTc ==
    \E k \in Returned("landau") :
      /\ FEq(trace[k].pre.temperature,
             LandauTc(trace[k].pre.pressure, modifiers[trace[k].i][2]))
      /\ ~FEq(trace[k].pre.temperature, modifiers[trace[k].i][2].Tc_0)
      /\ FEq(trace[k].rec.dGdT, Neg(modifiers[trace[k].i][2].S_D))
      /\ ~IsZero(trace[k].rec.G)

\* the steps of the reference sequence, in its order
ReferenceOrder == <<"gibbs", "C_p", "K_T", "alpha", "S", "V", "H",
                    "helmholtz", "C_v", "gr", "K_S">>

\* steps 1-6, each from the fields old of the state before the call
ReferenceDirect(old, ex) ==
    [gibbs |-> old.gibbs (+) ex.G,
     C_p   |-> old.C_p (-) (old.temperature (.) ex.d2GdT2),
     K_T   |-> Neg(old.V (+) ex.dGdP) (/) (ex.d2GdP2 (-) (old.V (/) old.K_T)),
     alpha |-> ((old.alpha (.) old.V) (+) ex.d2GdPdT) (/) (old.V (+) ex.dGdP),
     S     |-> old.S (-) ex.dGdT,
     V     |-> old.V (+) ex.dGdP]

\* steps 10 and 11, from the new values and the new C_v
ReferenceRatios(new, H, helmholtz, C_v) ==
    [gibbs |-> new.gibbs, C_p |-> new.C_p, K_T |-> new.K_T,
     alpha |-> new.alpha, S |-> new.S, V |-> new.V,
     H |-> H, helmholtz |-> helmholtz, C_v |-> C_v,
     gr  |-> ((new.alpha (.) new.K_T) (.) new.V) (/) C_v,
     K_S |-> (new.K_T (.) new.C_p) (/) C_v]

\* steps 7-9, from the new values of steps 1-6
ReferenceDerived(old, new) ==
    ReferenceRatios(new,
      new.gibbs (+) (old.temperature (.) new.S),
      new.gibbs (-) (old.pressure (.) new.V),
      new.C_p (-) ((((new.V (.) old.temperature) (.) new.alpha)
                     (.) new.alpha) (.) new.K_T))

\* the eleven values of the reference sequence
ReferenceSequence(old, ex) == ReferenceDerived(old, ReferenceDirect(old, ex))

\* the values of the steps, in order
InOrder(ref) == [j \in DOMAIN ReferenceOrder |-> ref[ReferenceOrder[j]]]

\* the call e ended as the reference sequence does: in the error of its
\* first failing step, if any, with the fields of the steps before it set
\* to the reference values and all others as they were
MatchesReference(e, ref) ==
    /\ e.raised = FirstErr(InOrder(ref))
    /\ \A j \in DOMAIN ReferenceOrder :
         e.post[ReferenceOrder[j]] =
           (IF FirstErr(SubSeq(InOrder(ref), 1, j)) = ""
            THEN ref[ReferenceOrder[j]]
            ELSE e.pre[ReferenceOrder[j]])
    /\ e.post.pressure = e.pre.pressure
    /\ e.post.temperature = e.pre.temperature
    /\ e.post.params = e.pre.params

\* C12: every call of the compositor ends as the eleven-step reference
\* sequence does, in which K_T and alpha are computed from the volume (and
\* K_T from the bulk modulus) of before the call, and H, helmholtz, C_v, gr
\* and K_S from the values this call has stored.
ModifyFollowsReference ==
    \A k \in DOMAIN trace :
      trace[k].op = "modify"
      => MatchesReference(trace[k],
                          ReferenceSequence(trace[k].pre, trace[k].rec))

\* a call has completed whose record changes the volume, so that K_T and
\* alpha computed from the new volume would have differed
ModifiedWithVolumeChange ==
    \E k \in CompletedModifies :
      /\ ~IsZero(trace[k].rec.dGdP)
      /\ IsFinite(trace[k].post.K_T) /\ IsFinite(trace[k].post.alpha)
      /\ FEq(trace[k].post.V, trace[k].pre.V (+) trace[k].rec.dGdP)
      /\ FEq(trace[k].post.K_T,
             Neg(trace[k].post.V)
               (/) (trace[k].rec.d2GdP2
                      (-) (trace[k].pre.V (/) trace[k].pre.K_T)))
      /\ ~FEq(trace[k].post.K_T,
              Neg(trace[k].post.V (+) trace[k].rec.dGdP)
                (/) (trace[k].rec.d2GdP2
                       (-) (trace[k].post.V (/) trace[k].pre.K_T)))
      /\ ~FEq(trace[k].post.alpha,
              ((trace[k].pre.alpha (.) trace[k].post.V)
                 (+) trace[k].rec.d2GdPdT)
                (/) (trace[k].post.V (+) trace[k].rec.dGdP))

\* the field-wise sum of two records
SumRecord(e1, e2) == [f \in DOMAIN ZeroRecord |-> e1[f] (+) e2[f]]

\* the list in the opposite order
Reverse(list) == [j \in 1..Len(list) |-> list[Len(list) + 1 - j]]

\* the two states agree on every field
SameFields(a, b) ==
    /\ \A f \in StateFields : FEq(a[f], b[f])
    /\ a.params = b.params

\* the call of the compositor on m and ex that ended in c divided by no
\* zero and met no infinite or not-a-number value
DivisionFree(m, ex, c) ==
    /\ c.raised = ""
    /\ \A f \in StateFields : IsFinite(m[f]) /\ IsFinite(c.m[f])
    /\ \A f \in DOMAIN ZeroRecord : IsFinite(ex[f])
    /\ ~IsZero(m.K_T)
    /\ ~IsZero(ex.d2GdP2 (-) (m.V (/) m.K_T))
    /\ ~IsZero(m.V (+) ex.dGdP)
    /\ ~IsZero(c.m.C_v)

\* c1, c2: ex1 then ex2 from m;  d1, d2: ex2 then ex1 from m;  s: the sum
AllDivisionFree(m, ex1, ex2, c1, c2, d1, d2, s) ==
    /\ DivisionFree(m, ex1, c1) /\ DivisionFree(c1.m, ex2, c2)
    /\ DivisionFree(m, ex2, d1) /\ DivisionFree(d1.m, ex1, d2)
    /\ DivisionFree(m, SumRecord(ex1, ex2), s)

Additive(m, ex1, ex2, c1, c2, d1, d2, s) ==
    AllDivisionFree(m, ex1, ex2, c1, c2, d1, d2, s)
    => SameFields(c2.m, d2.m) /\ SameFields(c2.m, s.m)

\* ex1 then ex2 from m ended in c1 and c2, and ex2 alone in d1
AdditiveAfter(m, ex1, ex2, c1, c2, d1) ==
    Additive(m, ex1, ex2, c1, c2, d1, ModifyProperties(d1.m, ex1),
             ModifyProperties(m, SumRecord(ex1, ex2)))

AdditiveVia(m, ex1, ex2, c1) ==
    AdditiveAfter(m, ex1, ex2, c1, ModifyProperties(c1.m, ex2),
                  ModifyProperties(m, ex2))

\* composing ex1 and ex2 onto m gives one state in either order and as
\* one composition of their sum
AdditiveFrom(m, ex1, ex2) ==
    AdditiveVia(m, ex1, ex2, ModifyProperties(m, ex1))

\* what a recorded call of the compositor ended in
Ended(e) == [m |-> e.post, raised |-> e.raised]

\* the records the law is stated of for a mineral with no modifiers: the
\* Python-float records of ExcessRecords
PairRecords(m) ==
    { ex \in ExcessRecords(m) : ~ex.G.np /\ ~ex.dGdP.np /\ ~ex.d2GdP2.np }

\* The state the loop of line 330 leaves for a list, from the state m, and
\* whether every call of the compositor on the way was division-free.
RECURSIVE ApplyAll(_, _, _)
ApplyEntry(m, list, free, ex, c) ==
    ApplyAll(c.m, Tail(list), free /\ DivisionFree(m, ex, c))

ApplyRecord(m, list, free, ex) ==
    ApplyEntry(m, list, free, ex, ModifyProperties(m, ex))

ApplyAll(m, list, free) ==
    IF list = <<>> THEN [m |-> m, free |-> free]
    ELSE IF Head(list)[1] \notin KnownKinds THEN ApplyAll(m, Tail(list), free)
    ELSE ApplyRecord(m, list, free, RecordOf(Head(list), m))

\* the two calls of the compositor just made, when both completed
LatestPair ==
    { k \in CompletedModifies :
        /\ status = "running"
        /\ k + 2 = Len(trace)
        /\ k + 2 \in CompletedModifies }

\* every call of the compositor made was division-free
GivenFree ==
    \A k \in CompletedModifies :
      DivisionFree(trace[k].pre, trace[k].rec, Ended(trace[k]))

\* the list in the opposite order leaves the state the call has left
SameInReverse(opposite) ==
    (Reverse(modifiers) # modifiers /\ GivenFree /\ opposite.free)
    => SameFields(opposite.m, mineral)

\* C13: two calls of the compositor in a row leave the state that the same
\* two records leave in the other order, and that their field-wise sum
\* leaves in one call, whenever none of these calls divides by zero; when
\* the call has returned, the excess function of the first entry applied
\* gives at the state left the record it gave at the start, and the list
\* taken in the opposite order leaves the same state.  For a mineral with no modifiers the first part
\* is stated of every two records of PairRecords, were they composed onto
\* its state.
CompositionIsAdditive ==
    /\ \A k \in LatestPair :
         AdditiveAfter(trace[k].pre, trace[k].rec, trace[k + 2].rec,
                       Ended(trace[k]), Ended(trace[k + 2]),
                       ModifyProperties(trace[k].pre, trace[k + 2].rec))
    /\ (modifiers = <<>> /\ status = "returned")
       => \A ex1, ex2 \in PairRecords(mineral) :
            AdditiveFrom(mineral, ex1, ex2)
    /\ (status = "returned" /\ Len(trace) > 0)
       => /\ trace[1].rec = RecordOf(modifiers[trace[1].i], mineral)
          /\ SameInReverse(ApplyAll(trace[1].pre, Reverse(modifiers), TRUE))

\* two entries of different kinds, the first changing the volume and both
\* changing K_T and alpha, have been applied with no division by zero, and
\* the opposite order and the sum are division-free too
TwoCurvedEntriesApplied ==
    /\ status = "returned"
    /\ Len(modifiers) = 2
    /\ modifiers[1][1] # modifiers[2][1]
    /\ Len(trace) = 4
    /\ ~IsZero(trace[2].rec.dGdP)
    /\ ~IsZero(trace[2].rec.d2GdP2) /\ ~IsZero(trace[4].rec.d2GdP2)
    /\ ~IsZero(trace[2].rec.d2GdPdT) /\ ~IsZero(trace[4].rec.d2GdPdT)
    /\ ~FEq(trace[2].post.K_T, trace[2].pre.K_T)
    /\ ~FEq(trace[4].post.K_T, trace[4].pre.K_T)
    /\ ~FEq(trace[4].post.alpha, trace[4].pre.alpha)
    /\ GivenFree
    /\ ApplyAll(trace[1].pre, Reverse(modifiers), TRUE).free
    /\ DivisionFree(trace[1].pre, SumRecord(trace[2].rec, trace[4].rec),
                    ModifyProperties(trace[1].pre,
                                     SumRecord(trace[2].rec, trace[4].rec)))
    /\ SameFields(ApplyAll(trace[1].pre, Reverse(modifiers), TRUE).m,
                  mineral)

=============================================================================
